---- MODULE Spec2Model ----
(***************************************************************************)
(* Polls application: the store (tables polls, poll_options, votes with    *)
(* their triggers, CHECK constraints, cascades and row-level security) and *)
(* the repository functions and API routes that write to it.               *)
(*                                                                         *)
(* Texts are sequences of one-character strings so that trim() and         *)
(* toLowerCase() are computed.  Timestamps are integers; every handler     *)
(* runs at one instant `now`.  A NULL column is the empty sequence and a   *)
(* present value v is <<v>>.                                               *)
(***************************************************************************)
EXTENDS Integers, Sequences, FiniteSets, Bags, TLC

VARIABLES polls, poll_options, votes, now, next_poll_id, next_option_id, listing,
          calc, inflight

vars == <<polls, poll_options, votes, now, next_poll_id, next_option_id, listing, calc,
          inflight>>

\* ---------------------------------------------------------------- bounds
MaxPolls == 2
MaxOpts == 2
MaxSel == 2
MaxVotes == 2
MaxTime == 2

\* ------------------------------------------------------------- universes
Users == {"u1", "u2"}
Anon == "anon"
Sessions == Users \cup {Anon}
\* the Authorization header of a request: absent, a token the identity service
\* does not accept, or the token of a user
Bearers == {"missing", "invalid"} \cup Users
\* supabase.auth.getUser(token)
GetUser(bearer) == IF bearer \in Users THEN bearer ELSE Anon
PollIds == 1..MaxPolls
NULL == <<>>
NoError == "none"
StoreError == "store error"
NoRows == "PGRST116"

\* sequences over S of length 0..n
SeqsUpTo(S, n) == UNION {[1..k -> S] : k \in 0..n}

\* ------------------------------------------------------------------ text
IsSpace(c) == c = " "

RECURSIVE TrimStart(_)
TrimStart(s) == IF s # <<>> /\ IsSpace(Head(s)) THEN TrimStart(Tail(s)) ELSE s

RECURSIVE TrimEnd(_)
TrimEnd(s) ==
    IF s # <<>> /\ IsSpace(s[Len(s)]) THEN TrimEnd(SubSeq(s, 1, Len(s) - 1)) ELSE s

\* String.prototype.trim
Trim(s) == TrimEnd(TrimStart(s))

\* a comparison that keeps the case
ToLowerCase_KeepCase(s) == s

\* String.prototype.toLowerCase over the alphabet of the model
ToLowerCase(s) == [i \in DOMAIN s |-> IF s[i] = "A" THEN "a" ELSE s[i]]

\* ------------------------------------------------- store: visibility (RLS)
\* expires_at IS NULL OR expires_at > NOW()
NotExpired(poll, t) == poll.expires_at = NULL \/ poll.expires_at[1] > t

\* the policies without "Poll creators can view their own polls"
PollVisible_ActiveOnly(P, id, sess, t) ==
    id \in DOMAIN P /\ P[id].is_active /\ NotExpired(P[id], t)

\* SELECT policies on polls: active polls for anyone, own polls for the creator
PollVisible(P, id, sess, t) ==
    /\ id \in DOMAIN P
    /\ \/ P[id].is_active /\ NotExpired(P[id], t)
       \/ P[id].creator_id = sess

\* supabase.from('polls').select('*').eq('id', id).single()
SelectPoll(P, id, sess, t, fault) ==
    IF fault THEN [error |-> StoreError, data |-> NULL]
    ELSE IF ~PollVisible(P, id, sess, t) THEN [error |-> NoRows, data |-> NULL]
    ELSE [error |-> NoError, data |-> <<P[id]>>]

\* ------------------------------------------------------ store: votes table
VoteRow(userId, pollId, optionId) ==
    [user_id |-> userId, poll_id |-> pollId, option_id |-> optionId]

\* the vote rows of a user on a poll
UserPollRows(V, userId, pollId) ==
    [r \in {x \in DOMAIN V : x.user_id = userId /\ x.poll_id = pollId} |-> V[r]]

\* number of vote rows of a user on a poll
UserPollVotes(V, userId, pollId) == BagCardinality(UserPollRows(V, userId, pollId))

\* number of vote rows on a poll
PollVotes(V, pollId) ==
    BagCardinality([r \in {x \in DOMAIN V : x.poll_id = pollId} |-> V[r]])

\* the trigger without its check
validate_option_poll_relationship_Off(O, row) == NoError

\* trigger validate_option_poll_relationship (BEFORE INSERT OR UPDATE ON votes)
validate_option_poll_relationship(O, row) ==
    IF row.option_id \in DOMAIN O /\ O[row.option_id].poll_id = row.poll_id
    THEN NoError
    ELSE "Option does not belong to the specified poll"

\* the trigger without its check for earlier votes of the user
validate_vote_NoDuplicateCheck(P, V, row, t) ==
    IF row.poll_id \notin DOMAIN P THEN NoError
    ELSE LET poll_record == P[row.poll_id] IN
         IF ~poll_record.is_active THEN "Cannot vote on inactive poll"
         ELSE IF poll_record.expires_at # NULL /\ poll_record.expires_at[1] < t
              THEN "Cannot vote on expired poll"
         ELSE NoError

\* trigger validate_vote (BEFORE INSERT ON votes); V holds the rows already
\* processed by the same statement
validate_vote(P, V, row, t) ==
    IF row.poll_id \notin DOMAIN P THEN NoError
    ELSE LET poll_record == P[row.poll_id] IN
         IF ~poll_record.is_active THEN "Cannot vote on inactive poll"
         ELSE IF poll_record.expires_at # NULL /\ poll_record.expires_at[1] < t
              THEN "Cannot vote on expired poll"
         ELSE IF /\ ~poll_record.allow_multiple_choices
                 /\ UserPollVotes(V, row.user_id, row.poll_id) > 0
              THEN "Multiple votes not allowed on this poll"
         ELSE NoError

\* policy "Authenticated users can vote" (INSERT WITH CHECK)
VotesInsertPolicy(P, row, sess, t) ==
    /\ sess # Anon
    /\ sess = row.user_id
    /\ row.poll_id \in DOMAIN P
    /\ P[row.poll_id].is_active
    /\ NotExpired(P[row.poll_id], t)

\* one row of an INSERT INTO votes: the BEFORE ROW triggers in name order,
\* then the policy's WITH CHECK, then the foreign keys
VoteRowError(P, O, V, row, sess, t) ==
    LET e1 == validate_option_poll_relationship(O, row)
        e2 == validate_vote(P, V, row, t)
    IN  IF e1 # NoError THEN e1
        ELSE IF e2 # NoError THEN e2
        ELSE IF ~VotesInsertPolicy(P, row, sess, t)
             THEN "new row violates row-level security policy"
        ELSE IF row.poll_id \notin DOMAIN P \/ row.option_id \notin DOMAIN O
             THEN "violates foreign key constraint"
        ELSE NoError

RECURSIVE InsertVoteRows(_, _, _, _, _, _)
InsertVoteRows(P, O, V, rows, sess, t) ==
    IF rows = <<>> THEN [votes |-> V, error |-> NoError]
    ELSE LET e == VoteRowError(P, O, V, Head(rows), sess, t) IN
         IF e # NoError THEN [votes |-> V, error |-> e]
         ELSE InsertVoteRows(P, O, V (+) SetToBag({Head(rows)}), Tail(rows), sess, t)

\* the rows kept although a later row of the statement failed
InsertVotesPartial(P, O, V, rows, sess, t, fault) ==
    IF fault THEN [votes |-> V, error |-> StoreError]
    ELSE InsertVoteRows(P, O, V, rows, sess, t)

\* supabase.from('votes').insert(rows): one statement, all rows or none
InsertVotes(P, O, V, rows, sess, t, fault) ==
    IF fault THEN [votes |-> V, error |-> StoreError]
    ELSE LET r == InsertVoteRows(P, O, V, rows, sess, t) IN
         IF r.error # NoError THEN [votes |-> V, error |-> r.error] ELSE r

\* supabase.from('votes').delete().eq('poll_id', ..).eq('user_id', ..)
\* [.eq('option_id', ..)]: optionId is NULL or <<id>>.  The DELETE policy
\* (auth.uid() = user_id) and, as the statement filters on columns, the
\* SELECT policy of votes restrict the rows it reaches.
DeleteVotes(P, V, pollId, userId, optionId, sess, t, fault) ==
    IF fault THEN [votes |-> V, error |-> StoreError]
    ELSE LET hit == {r \in DOMAIN V :
                        /\ r.poll_id = pollId
                        /\ r.user_id = userId
                        /\ (optionId = NULL \/ r.option_id = optionId[1])
                        /\ r.user_id = sess
                        /\ PollVisible(P, r.poll_id, sess, t)}
         IN  [votes |-> [r \in DOMAIN V \ hit |-> V[r]], error |-> NoError]

\* ------------------------------------------------------------ vote handlers
\* votesData: one row per submitted option id
VotesData(userId, pollId, option_ids) ==
    [i \in DOMAIN option_ids |-> VoteRow(userId, pollId, option_ids[i])]

\* castVote(pollId, voteData, userId) of lib/database.ts, run by a client whose
\* session is sess; faults is the set of its store statements that fail
castVote(P, O, V, t, sess, pollId, option_ids, userId, faults) ==
    LET sel == SelectPoll(P, pollId, sess, t, "select_poll" \in faults) IN
    IF sel.error # NoError \/ sel.data = NULL
    THEN [votes |-> V, error |-> sel.error]
    ELSE LET poll == sel.data[1] IN
         IF ~poll.is_active THEN [votes |-> V, error |-> "POLL_INACTIVE"]
         ELSE IF poll.expires_at # NULL /\ poll.expires_at[1] < t
              THEN [votes |-> V, error |-> "POLL_EXPIRED"]
         ELSE LET V1 == IF ~poll.allow_multiple_choices
                        THEN DeleteVotes(P, V, pollId, userId, NULL, sess, t,
                                         "delete_votes" \in faults).votes
                        ELSE V
              IN  InsertVotes(P, O, V1, VotesData(userId, pollId, option_ids),
                              sess, t, "insert_votes" \in faults)

\* POST /api/polls/vote; user is the user of the bearer token, Anon when the
\* header is missing or the token invalid; the store client is bound to it
PostVote(P, O, V, t, user, pollId, option_ids, faults) ==
    IF user = Anon THEN [votes |-> V, status |-> 401, error |-> "Authentication required"]
    ELSE IF Len(option_ids) = 0
    THEN [votes |-> V, status |-> 400, error |-> "pollId and optionIds are required"]
    ELSE LET sel == SelectPoll(P, pollId, user, t, "select_poll" \in faults) IN
    IF sel.error # NoError \/ sel.data = NULL
    THEN [votes |-> V, status |-> 404, error |-> "Poll not found"]
    ELSE LET pollRow == sel.data[1] IN
         IF ~pollRow.is_active
         THEN [votes |-> V, status |-> 400, error |-> "Poll is not active"]
         ELSE IF pollRow.expires_at # NULL /\ pollRow.expires_at[1] < t
         THEN [votes |-> V, status |-> 400, error |-> "Poll has expired"]
         ELSE IF ~pollRow.allow_multiple_choices /\ Len(option_ids) > 1
         THEN [votes |-> V, status |-> 400,
               error |-> "Multiple selections are not allowed"]
         ELSE LET V1 == IF ~pollRow.allow_multiple_choices
                        THEN DeleteVotes(P, V, pollId, user, NULL, user, t,
                                         "delete_votes" \in faults).votes
                        ELSE V
                  ins == InsertVotes(P, O, V1, VotesData(user, pollId, option_ids),
                                     user, t, "insert_votes" \in faults)
              IN  IF ins.error # NoError
                  THEN [votes |-> ins.votes, status |-> 500, error |-> ins.error]
                  ELSE [votes |-> ins.votes, status |-> 200, error |-> NoError]

\* removeVote(pollId, userId, optionId?) of lib/database.ts
removeVote(P, V, t, sess, pollId, userId, optionId, faults) ==
    DeleteVotes(P, V, pollId, userId, optionId, sess, t, "delete_votes" \in faults)

\* ------------------------------------------------------ store: polls table
TitleMinLength == 3
TitleMaxLength == 200
OptionTextMaxLength == 200
MaxOptionsAllowed == 10

\* supabase.from('polls').insert(row).select('*').single(): the INSERT policy
\* (authenticated, auth.uid() = creator_id), then the CHECK constraints
InsertPoll(P, id, row, sess, fault) ==
    IF fault THEN [polls |-> P, error |-> StoreError]
    ELSE IF ~(sess # Anon /\ sess = row.creator_id)
    THEN [polls |-> P, error |-> "new row violates row-level security policy"]
    ELSE IF ~(Len(row.title) >= TitleMinLength /\ Len(row.title) <= TitleMaxLength)
    THEN [polls |-> P, error |-> "violates check constraint polls_title_length"]
    ELSE IF ~(row.expires_at = NULL \/ row.expires_at[1] > row.created_at)
    THEN [polls |-> P, error |-> "violates check constraint polls_expires_at_future"]
    ELSE [polls |-> [i \in DOMAIN P \cup {id} |-> IF i = id THEN row ELSE P[i]],
          error |-> NoError]

\* one row of an INSERT INTO poll_options: the policy "Poll creators can manage
\* their poll options", the CHECK constraints and UNIQUE(poll_id, "order")
OptionRowError(P, O, row, sess) ==
    IF ~(row.poll_id \in DOMAIN P /\ P[row.poll_id].creator_id = sess)
    THEN "new row violates row-level security policy"
    ELSE IF ~(Len(row.text) >= 1 /\ Len(row.text) <= OptionTextMaxLength)
    THEN "violates check constraint poll_options_text_length"
    ELSE IF ~(row.order >= 0)
    THEN "violates check constraint poll_options_order_positive"
    ELSE IF \E o \in DOMAIN O : O[o].poll_id = row.poll_id /\ O[o].order = row.order
    THEN "duplicate key value violates unique constraint"
    ELSE NoError

RECURSIVE InsertOptionRows(_, _, _, _, _)
InsertOptionRows(P, O, id, rows, sess) ==
    IF rows = <<>> THEN [poll_options |-> O, error |-> NoError]
    ELSE LET e == OptionRowError(P, O, Head(rows), sess) IN
         IF e # NoError THEN [poll_options |-> O, error |-> e]
         ELSE InsertOptionRows(
                  P,
                  [i \in DOMAIN O \cup {id} |-> IF i = id THEN Head(rows) ELSE O[i]],
                  id + 1, Tail(rows), sess)

\* supabase.from('poll_options').insert(rows).select('*'): one statement; the
\* new rows take the ids id, id+1, ...
InsertOptions(P, O, id, rows, sess, fault) ==
    IF fault THEN [poll_options |-> O, error |-> StoreError]
    ELSE LET r == InsertOptionRows(P, O, id, rows, sess) IN
         IF r.error # NoError THEN [poll_options |-> O, error |-> r.error] ELSE r

\* a delete that reaches no row
DeletePollRow_NoMatch(P, O, V, id, sess, fault) ==
    [polls |-> P, poll_options |-> O, votes |-> V,
     error |-> IF fault THEN StoreError ELSE NoError]

\* supabase.from('polls').delete().eq('id', id) under the DELETE policy
\* (auth.uid() = creator_id), with ON DELETE CASCADE to poll_options and votes
DeletePollRow(P, O, V, id, sess, fault) ==
    IF fault \/ ~(id \in DOMAIN P /\ P[id].creator_id = sess)
    THEN [polls |-> P, poll_options |-> O, votes |-> V,
          error |-> IF fault THEN StoreError ELSE NoError]
    ELSE LET gone == {o \in DOMAIN O : O[o].poll_id = id} IN
         [polls |-> [i \in DOMAIN P \ {id} |-> P[i]],
          poll_options |-> [o \in DOMAIN O \ gone |-> O[o]],
          votes |-> [r \in {x \in DOMAIN V : x.poll_id # id /\ x.option_id \notin gone}
                       |-> V[r]],
          error |-> NoError]

\* ------------------------------------------------------------ poll handlers
\* optionsData of createPoll: text trimmed, order = index
OptionsData(pollId, options) ==
    [i \in DOMAIN options |->
        [poll_id |-> pollId, text |-> Trim(options[i]), order |-> i - 1]]

\* the poll-with-relations createPoll returns
PollWithRelations(id, row, options) ==
    [id |-> id, title |-> row.title,
     options |-> [i \in DOMAIN options |->
                    [text |-> options[i].text, order |-> options[i].order,
                     vote_count |-> 0]],
     total_votes |-> 0]

\* createPoll(pollData, userId) of lib/database.ts, run by a client whose
\* session is sess; id and oid are the ids the store gives to the new rows
createPoll(P, O, V, t, id, oid, sess, pollData, userId, faults) ==
    LET row == [title |-> pollData.title,
                creator_id |-> userId,
                is_active |-> TRUE,
                allow_multiple_choices |-> pollData.allow_multiple_choices,
                expires_at |-> pollData.expires_at,
                created_at |-> t]
        ins == InsertPoll(P, id, row, sess, "insert_poll" \in faults)
        none == [polls |-> P, poll_options |-> O, votes |-> V,
                 next_poll_id |-> id, next_option_id |-> oid, data |-> NULL]
    IN
    IF ins.error # NoError THEN [error |-> ins.error] @@ none
    ELSE LET optionsData == OptionsData(id, pollData.options)
             opt == InsertOptions(ins.polls, O, oid, optionsData, sess,
                                  "insert_options" \in faults)
         IN
         IF opt.error # NoError
         THEN LET del == DeletePollRow(ins.polls, O, V, id, sess,
                                       "delete_poll" \in faults)
              IN  [polls |-> del.polls, poll_options |-> del.poll_options,
                   votes |-> del.votes, next_poll_id |-> id + 1,
                   next_option_id |-> oid, data |-> NULL, error |-> opt.error]
         ELSE [polls |-> ins.polls, poll_options |-> opt.poll_options, votes |-> V,
               next_poll_id |-> id + 1,
               next_option_id |-> oid + Len(optionsData),
               data |-> <<PollWithRelations(id, row, optionsData)>>,
               error |-> NoError]

\* POST /api/polls (the handler that calls createPoll): user is the user of
\* the ambient session of the shared client, which createPoll then runs under
PostPolls(P, O, V, t, id, oid, user, body, faults) ==
    LET reject(code, msg) ==
            [polls |-> P, poll_options |-> O, votes |-> V, next_poll_id |-> id,
             next_option_id |-> oid, data |-> NULL, status |-> code, error |-> msg]
        NonEmpty(opt) == Trim(opt) # <<>>
        validOptions == SelectSeq(body.options, NonEmpty)
        uniqueOptions == {ToLowerCase(Trim(validOptions[i])) : i \in DOMAIN validOptions}
    IN
    IF user = Anon THEN reject(401, "Authentication required")
    ELSE IF Trim(body.title) = <<>> THEN reject(400, "Poll title is required")
    ELSE IF Len(body.options) < 2 THEN reject(400, "At least 2 options are required")
    ELSE IF Len(validOptions) < 2
    THEN reject(400, "At least 2 non-empty options are required")
    ELSE IF Cardinality(uniqueOptions) # Len(validOptions)
    THEN reject(400, "All options must be unique")
    ELSE IF body.expires_at # NULL /\ body.expires_at[1] <= t
    THEN reject(400, "Expiry date must be in the future")
    ELSE LET r == createPoll(P, O, V, t, id, oid, user,
                             [title |-> Trim(body.title),
                              options |-> validOptions,
                              allow_multiple_choices |-> body.allow_multiple_choices,
                              expires_at |-> body.expires_at],
                             user, faults)
         IN  [status |-> IF r.error # NoError THEN 500 ELSE 201] @@ r

\* createPollWithClient(pollData, userId, client): createPoll run on the client
\* it is given instead of the shared one
createPollWithClient(P, O, V, t, id, oid, pollData, userId, client, faults) ==
    createPoll(P, O, V, t, id, oid, client, pollData, userId, faults)

\* the 401 answers of the handlers that read the bearer token
AuthError(bearer) ==
    IF bearer = "missing" THEN "Authentication required" ELSE "Invalid or expired token"

\* POST /api/polls (the handler that reads the bearer token and calls
\* createPollWithClient on a client bound to it)
PostPollsToken(P, O, V, t, id, oid, bearer, body, faults) ==
    LET reject(code, msg) ==
            [polls |-> P, poll_options |-> O, votes |-> V, next_poll_id |-> id,
             next_option_id |-> oid, data |-> NULL, status |-> code, error |-> msg]
        user == GetUser(bearer)
        NonEmpty(opt) == opt # <<>>
        cleanedOptions ==
            SelectSeq([i \in DOMAIN body.options |-> Trim(body.options[i])], NonEmpty)
        unique == {ToLowerCase(cleanedOptions[i]) : i \in DOMAIN cleanedOptions}
    IN
    IF user = Anon THEN reject(401, AuthError(bearer))
    ELSE IF Trim(body.title) = <<>> THEN reject(400, "Poll title is required")
    ELSE IF Len(body.options) < 2 THEN reject(400, "At least 2 options are required")
    ELSE IF Len(body.options) > MaxOptionsAllowed
    THEN reject(400, "Maximum 10 options allowed")
    ELSE IF Len(cleanedOptions) < 2
    THEN reject(400, "At least 2 non-empty options are required")
    ELSE IF Cardinality(unique) # Len(cleanedOptions)
    THEN reject(400, "All options must be unique")
    ELSE IF body.expires_at # NULL /\ body.expires_at[1] <= t
    THEN reject(400, "Expiry date must be in the future")
    ELSE LET r == createPollWithClient(P, O, V, t, id, oid,
                                       [title |-> Trim(body.title),
                                        options |-> cleanedOptions,
                                        allow_multiple_choices |-> body.allow_multiple_choices,
                                        expires_at |-> body.expires_at],
                                       user, user, faults)
         IN  [status |-> IF r.error # NoError THEN 500 ELSE 201] @@ r

\* POST /api/polls/create (the handler that calls createPollWithClient)
PostPollsCreate(P, O, V, t, id, oid, bearer, body, faults) ==
    LET reject(code, msg) ==
            [polls |-> P, poll_options |-> O, votes |-> V, next_poll_id |-> id,
             next_option_id |-> oid, data |-> NULL, status |-> code, error |-> msg]
        user == GetUser(bearer)
        uniqueOptions == {ToLowerCase(Trim(body.options[i])) : i \in DOMAIN body.options}
    IN
    IF user = Anon THEN reject(401, AuthError(bearer))
    ELSE IF Trim(body.title) = <<>> THEN reject(400, "Poll title is required")
    ELSE IF Len(body.options) < 2 THEN reject(400, "At least 2 options are required")
    ELSE IF Len(body.options) > MaxOptionsAllowed
    THEN reject(400, "Maximum 10 options allowed")
    ELSE IF Cardinality(uniqueOptions) # Len(body.options)
    THEN reject(400, "All options must be unique")
    ELSE IF body.expires_at # NULL /\ body.expires_at[1] <= t
    THEN reject(400, "Expiry date must be in the future")
    ELSE LET r == createPollWithClient(P, O, V, t, id, oid,
                                       [title |-> Trim(body.title),
                                        options |-> [i \in DOMAIN body.options |->
                                                        Trim(body.options[i])],
                                        allow_multiple_choices |-> body.allow_multiple_choices,
                                        expires_at |-> body.expires_at],
                                       user, user, faults)
         IN  [status |-> IF r.error # NoError THEN 500 ELSE 200] @@ r

\* POST /api/polls/create (the handler that answers with a mock poll): it
\* looks at the header only and issues no store statement
PostPollsCreateMock(P, O, V, t, id, oid, bearer, body) ==
    LET answer(code, msg) ==
            [polls |-> P, poll_options |-> O, votes |-> V, next_poll_id |-> id,
             next_option_id |-> oid, data |-> NULL, status |-> code, error |-> msg]
        uniqueOptions == {ToLowerCase(Trim(body.options[i])) : i \in DOMAIN body.options}
    IN
    IF bearer = "missing" THEN answer(401, "Authentication required")
    ELSE IF Trim(body.title) = <<>> THEN answer(400, "Poll title is required")
    ELSE IF Len(body.options) < 2 THEN answer(400, "At least 2 options are required")
    ELSE IF Len(body.options) > MaxOptionsAllowed
    THEN answer(400, "Maximum 10 options allowed")
    ELSE IF Cardinality(uniqueOptions) # Len(body.options)
    THEN answer(400, "All options must be unique")
    ELSE IF body.expires_at # NULL /\ body.expires_at[1] <= t
    THEN answer(400, "Expiry date must be in the future")
    ELSE [answer(200, NoError) EXCEPT
             !.data = <<[id |-> 0, title |-> Trim(body.title),
                         options |-> [i \in DOMAIN body.options |->
                                        [text |-> Trim(body.options[i]), order |-> i - 1,
                                         vote_count |-> 0]],
                         total_votes |-> 0]>>]

\* an update that does not filter on the creator and is not held back by the
\* UPDATE policy
UpdatePollRow_AnyOwner(P, t, sess, pollId, updates, userId, fault) ==
    IF fault THEN [polls |-> P, error |-> StoreError]
    ELSE IF pollId \notin DOMAIN P THEN [polls |-> P, error |-> NoRows]
    ELSE [polls |-> [P EXCEPT ![pollId] =
                        [f \in DOMAIN P[pollId] |->
                            IF f \in DOMAIN updates THEN updates[f] ELSE P[pollId][f]]],
          error |-> NoError]

\* an update statement on a table without the constraint polls_expires_at_future
UpdatePollRow_NoExpiryCheck(P, t, sess, pollId, updates, userId, fault) ==
    IF fault THEN [polls |-> P, error |-> StoreError]
    ELSE IF ~(/\ pollId \in DOMAIN P
              /\ P[pollId].creator_id = userId
              /\ P[pollId].creator_id = sess)
    THEN [polls |-> P, error |-> NoRows]
    ELSE LET new == [f \in DOMAIN P[pollId] |->
                        IF f \in DOMAIN updates THEN updates[f] ELSE P[pollId][f]]
         IN
         IF new.creator_id # sess
         THEN [polls |-> P, error |-> "new row violates row-level security policy"]
         ELSE IF ~(Len(new.title) >= TitleMinLength /\ Len(new.title) <= TitleMaxLength)
         THEN [polls |-> P, error |-> "violates check constraint polls_title_length"]
         ELSE [polls |-> [P EXCEPT ![pollId] = new], error |-> NoError]

\* supabase.from('polls').update(updates).eq('id', ..).eq('creator_id', ..)
\* .select().single() under the UPDATE policy (auth.uid() = creator_id):
\* updates maps the supplied columns to their new values
UpdatePollRow(P, t, sess, pollId, updates, userId, fault) ==
    IF fault THEN [polls |-> P, error |-> StoreError]
    ELSE IF ~(/\ pollId \in DOMAIN P
              /\ P[pollId].creator_id = userId
              /\ P[pollId].creator_id = sess)
    THEN [polls |-> P, error |-> NoRows]
    ELSE LET new == [f \in DOMAIN P[pollId] |->
                        IF f \in DOMAIN updates THEN updates[f] ELSE P[pollId][f]]
         IN
         IF new.creator_id # sess
         THEN [polls |-> P, error |-> "new row violates row-level security policy"]
         ELSE IF ~(Len(new.title) >= TitleMinLength /\ Len(new.title) <= TitleMaxLength)
         THEN [polls |-> P, error |-> "violates check constraint polls_title_length"]
         ELSE IF ~(new.expires_at = NULL \/ new.expires_at[1] > new.created_at)
         THEN [polls |-> P, error |-> "violates check constraint polls_expires_at_future"]
         ELSE [polls |-> [P EXCEPT ![pollId] = new], error |-> NoError]

\* updatePoll(pollId, updates, userId) of lib/database.ts, run by a client
\* whose session is sess
updatePoll(P, t, sess, pollId, updates, userId, faults) ==
    UpdatePollRow(P, t, sess, pollId, updates, userId, "update_poll" \in faults)

\* the columns PATCH /api/polls/[id] copies from its body
PatchFields == {"title", "description", "is_active", "expires_at", "category_id"}
\* new Date(s) of a string that is not a date; a date that parses is <<n>>
InvalidDate == <<0, 0>>
IsInvalidDate(d) == Len(d) = Len(InvalidDate)

\* PATCH /api/polls/[id]: body maps the fields of the request to their
\* values; the fields the handler knows are copied to updates, and the
\* statement runs on a client bound to the bearer token
PatchPoll(P, t, bearer, pollId, body, faults) ==
    LET user == GetUser(bearer)
        updates == [f \in {x \in PatchFields : x \in DOMAIN body} |->
                       IF f = "title" THEN Trim(body[f]) ELSE body[f]]
    IN
    IF user = Anon THEN [polls |-> P, status |-> 401, error |-> AuthError(bearer)]
    ELSE IF "title" \in DOMAIN body /\ Trim(body.title) = <<>>
    THEN [polls |-> P, status |-> 400, error |-> "Poll title cannot be empty"]
    ELSE IF "expires_at" \in DOMAIN body /\ IsInvalidDate(body.expires_at)
    THEN [polls |-> P, status |-> 400, error |-> "Invalid expiresAt date"]
    ELSE IF DOMAIN updates = {}
    THEN [polls |-> P, status |-> 400, error |-> "No fields to update"]
    ELSE LET r == UpdatePollRow(P, t, user, pollId, updates, user, "update_poll" \in faults)
         IN  [polls |-> r.polls, status |-> IF r.error # NoError THEN 500 ELSE 200,
              error |-> r.error]

\* a delete of the poll row that reaches neither its options nor its votes
DeleteOwnPollRow_NoCascade(P, O, V, id, userId, sess, fault) ==
    IF fault \/ ~(id \in DOMAIN P /\ P[id].creator_id = userId /\ P[id].creator_id = sess)
    THEN [polls |-> P, poll_options |-> O, votes |-> V,
          error |-> IF fault THEN StoreError ELSE NoError]
    ELSE [polls |-> [i \in DOMAIN P \ {id} |-> P[i]], poll_options |-> O, votes |-> V,
          error |-> NoError]

\* supabase.from('polls').delete().eq('id', ..).eq('creator_id', ..)
DeleteOwnPollRow(P, O, V, id, userId, sess, fault) ==
    IF ~fault /\ id \in DOMAIN P /\ P[id].creator_id # userId
    THEN [polls |-> P, poll_options |-> O, votes |-> V, error |-> NoError]
    ELSE DeletePollRow(P, O, V, id, sess, fault)

\* deletePoll(pollId, userId) of lib/database.ts, run by a client whose
\* session is sess: it returns the statement's error
deletePoll(P, O, V, sess, pollId, userId, faults) ==
    DeleteOwnPollRow(P, O, V, pollId, userId, sess, "delete_poll" \in faults)

\* DELETE /api/polls/[id]: the statement runs on a client bound to the
\* bearer token
DeletePollRequest(P, O, V, bearer, pollId, faults) ==
    LET user == GetUser(bearer) IN
    IF user = Anon
    THEN [polls |-> P, poll_options |-> O, votes |-> V, status |-> 401,
          error |-> AuthError(bearer)]
    ELSE LET r == DeleteOwnPollRow(P, O, V, pollId, user, user, "delete_poll" \in faults)
         IN  [status |-> IF r.error # NoError THEN 500 ELSE 200] @@ r

\* ----------------------------------------------------------------- reading
\* COUNT(v.id) of the rows of votes joined to an option on po.id = v.option_id
OptionVoteCount(V, optionId) ==
    BagCardinality([r \in {x \in DOMAIN V : x.option_id = optionId} |-> V[r]])

\* the ids of a set of options in the order of their "order" column
RECURSIVE ByOrder(_, _)
ByOrder(O, S) ==
    IF S = {} THEN <<>>
    ELSE LET first == CHOOSE x \in S : \A y \in S : O[x].order <= O[y].order
         IN  <<first>> \o ByOrder(O, S \ {first})

\* view poll_options_with_stats, .eq('poll_id', ..).order('order'): the view
\* reads the tables with its owner's rights, so no row-level policy of the
\* caller applies
poll_options_with_stats(O, V, pollId) ==
    LET ids == ByOrder(O, {o \in DOMAIN O : O[o].poll_id = pollId})
    IN  [i \in DOMAIN ids |->
            [id |-> ids[i], text |-> O[ids[i]].text, order |-> O[ids[i]].order,
             vote_count |-> OptionVoteCount(V, ids[i])]]

\* options.reduce((sum, option) => sum + option.vote_count, 0)
RECURSIVE SumVoteCount(_)
SumVoteCount(options) ==
    IF options = <<>> THEN 0
    ELSE Head(options).vote_count + SumVoteCount(Tail(options))

\* supabase.from('votes').select('*').eq('poll_id', ..).eq('user_id', ..)
\* under the SELECT policy of votes
SelectUserVotes(P, V, pollId, userId, sess, t) ==
    IF PollVisible(P, pollId, sess, t) THEN UserPollRows(V, userId, pollId)
    ELSE EmptyBag

\* a getPoll that finds no poll when the poll has no option rows
getPoll_HidesEmpty(P, O, V, t, sess, pollId, userId, faults) ==
    LET sel == SelectPoll(P, pollId, sess, t, "select_poll" \in faults) IN
    IF sel.error # NoError \/ sel.data = NULL THEN [data |-> NULL, error |-> sel.error]
    ELSE IF "select_options" \in faults THEN [data |-> NULL, error |-> StoreError]
    ELSE IF poll_options_with_stats(O, V, pollId) = <<>>
    THEN [data |-> NULL, error |-> NoRows]
    ELSE [data |-> <<[id |-> pollId, poll |-> sel.data[1],
                      options |-> poll_options_with_stats(O, V, pollId),
                      user_votes |-> EmptyBag,
                      total_votes |-> SumVoteCount(poll_options_with_stats(O, V, pollId))]>>,
          error |-> NoError]

\* getPoll(pollId, userId?) of lib/database.ts, run by a client whose session
\* is sess; userId is NULL or <<id>>
getPoll(P, O, V, t, sess, pollId, userId, faults) ==
    LET sel == SelectPoll(P, pollId, sess, t, "select_poll" \in faults) IN
    IF sel.error # NoError \/ sel.data = NULL THEN [data |-> NULL, error |-> sel.error]
    ELSE IF "select_options" \in faults THEN [data |-> NULL, error |-> StoreError]
    ELSE LET options == poll_options_with_stats(O, V, pollId)
             userVotes == IF userId # NULL
                          THEN SelectUserVotes(P, V, pollId, userId[1], sess, t)
                          ELSE EmptyBag
             totalVotes == SumVoteCount(options)
         IN  [data |-> <<[id |-> pollId, poll |-> sel.data[1], options |-> options,
                          user_votes |-> userVotes, total_votes |-> totalVotes]>>,
              error |-> NoError]

\* the function with its join on the poll instead of the option
get_poll_results_JoinOnPoll(O, V, poll_uuid) ==
    LET ids == ByOrder(O, {o \in DOMAIN O : O[o].poll_id = poll_uuid})
    IN  [i \in DOMAIN ids |->
            [option_id |-> ids[i], option_text |-> O[ids[i]].text,
             option_order |-> O[ids[i]].order,
             vote_count |-> PollVotes(V, O[ids[i]].poll_id)]]

\* function get_poll_results(poll_uuid), SECURITY DEFINER: the options of the
\* poll LEFT JOINed to votes on po.id = v.option_id, grouped by option, in
\* the order of "order"
get_poll_results(O, V, poll_uuid) ==
    LET po == {o \in DOMAIN O : O[o].poll_id = poll_uuid}
        joined == {<<o, v>> \in po \X DOMAIN V : v.option_id = o}
        group(o) == {j \in joined : j[1] = o}
        ids == ByOrder(O, po)
    IN  [i \in DOMAIN ids |->
            [option_id |-> ids[i], option_text |-> O[ids[i]].text,
             option_order |-> O[ids[i]].order,
             vote_count |-> BagCardinality([j \in group(ids[i]) |-> V[j[2]]])]]

\* getPollResults(pollId) of lib/database.ts
getPollResults(O, V, pollId, faults) ==
    IF "get_poll_results" \in faults THEN [data |-> NULL, error |-> StoreError]
    ELSE [data |-> <<get_poll_results(O, V, pollId)>>, error |-> NoError]

\* view polls_with_stats: every poll row with COUNT(DISTINCT v.id) of the
\* votes joined on p.id = v.poll_id and the flag is_currently_active
polls_with_stats(P, V, t) ==
    [p \in DOMAIN P |->
        [total_votes |-> PollVotes(V, p),
         is_active |-> P[p].is_active,
         is_currently_active |->
            IF P[p].expires_at # NULL /\ P[p].expires_at[1] < t THEN FALSE
            ELSE P[p].is_active]]

\* the poll query of getPolls(filters, userId?): the rows of polls_with_stats
\* that pass filters.status, each with its total_votes
GetPollsQuery(P, V, t, status) ==
    LET rows == polls_with_stats(P, V, t)
        keep == {p \in DOMAIN rows :
                    CASE status = "active" -> rows[p].is_currently_active
                      [] status = "expired" ->
                            ~rows[p].is_currently_active /\ rows[p].is_active
                      [] status = "inactive" -> ~rows[p].is_active
                      [] OTHER -> TRUE}
    IN  [p \in keep |-> rows[p].total_votes]

\* the poll-with-relations getPolls builds for one poll of its query: the
\* options fetched from poll_options_with_stats now, and the total_votes the
\* poll query reported
GetPollsEntry(O, V, pollId, total_votes) ==
    [id |-> pollId, options |-> poll_options_with_stats(O, V, pollId),
     total_votes |-> total_votes]

\* ----------------------------------------------------------- numbers (JS)
\* A positive Number is an IEEE 754 binary64 value [digits, e]: digits holds
\* the MantissaBits bits of the significand 1.f as the leading 1 followed by
\* FractionDigits digits of DigitBits bits each, and e is the binary exponent.
MantissaBits == 53
DigitBits == 13
Digit == 2 ^ DigitBits
FractionDigits == (MantissaBits - 1) \div DigitBits

\* n digits of the expansion of r/t (r < t) and the remainder left
RECURSIVE LongDivision(_, _, _)
LongDivision(r, t, n) ==
    IF n = 0 THEN [digits |-> <<>>, r |-> r]
    ELSE LET rest == LongDivision((r * Digit) % t, t, n - 1)
         IN  [digits |-> <<(r * Digit) \div t>> \o rest.digits, r |-> rest.r]

\* v * 2^k with t <= v * 2^k < 2t, and e - k (0 < v <= t)
RECURSIVE Normalise(_, _, _)
Normalise(v, t, e) ==
    IF v >= t THEN [v |-> v, e |-> e] ELSE Normalise(2 * v, t, e - 1)

\* round to nearest, ties to even: digits is the significand cut after
\* MantissaBits bits, guard the first bit cut off, sticky tells that a later
\* one is set
RoundToNearestEven(digits, e, guard, sticky) ==
    LET up == guard = 1 /\ (sticky \/ digits[Len(digits)] % 2 = 1)
        carried(i) == \A j \in (i + 1)..Len(digits) : digits[j] = Digit - 1
        inc == [i \in DOMAIN digits |->
                    IF ~carried(i) THEN digits[i]
                    ELSE IF i = 1 THEN digits[i] + 1
                    ELSE (digits[i] + 1) % Digit]
    IN  IF ~up THEN [digits |-> digits, e |-> e]
        ELSE IF inc[1] = 2 THEN [digits |-> [inc EXCEPT ![1] = 1], e |-> e + 1]
        ELSE [digits |-> inc, e |-> e]

\* optionVotes / totalVotes for 0 < v <= t
Divide(v, t) ==
    LET n == Normalise(v, t, 0)
        q == LongDivision(n.v % t, t, FractionDigits + 1)
        cut == q.digits[FractionDigits + 1]
    IN  RoundToNearestEven(<<n.v \div t>> \o SubSeq(q.digits, 1, FractionDigits), n.e,
                           cut \div (Digit \div 2),
                           cut % (Digit \div 2) # 0 \/ q.r # 0)

\* the digits of digits * k; the leading one takes what does not fit a digit
RECURSIVE MulSmall(_, _)
MulSmall(digits, k) ==
    IF Len(digits) = 1 THEN <<digits[1] * k>>
    ELSE LET rest == MulSmall(Tail(digits), k)
         IN  <<digits[1] * k + (rest[1] \div Digit), rest[1] % Digit>> \o Tail(rest)

\* x * k for a natural 0 < k < Digit / 2
Times(x, k) ==
    LET product == MulSmall(x.digits, k)
        s == CHOOSE i \in 0..DigitBits : 2 ^ i <= product[1] /\ product[1] < 2 ^ (i + 1)
        shifted == [i \in DOMAIN product |->
                        IF i = 1 THEN product[1] \div (2 ^ s)
                        ELSE (product[i - 1] % (2 ^ s)) * (2 ^ (DigitBits - s))
                             + (product[i] \div (2 ^ s))]
        cut == product[Len(product)] % (2 ^ s)
    IN  IF s = 0 THEN [digits |-> product, e |-> x.e]
        ELSE RoundToNearestEven(shifted, x.e + s, cut \div (2 ^ (s - 1)),
                                cut % (2 ^ (s - 1)) # 0)

\* Math.round of a positive Number below 2^DigitBits: the nearest integer, a
\* half rounds up
MathRound(x) ==
    LET w == (x.digits[1] * Digit + x.digits[2]) * Digit + x.digits[3]
        twice == IF x.e < 0 - 1 THEN 0 ELSE w \div (2 ^ (2 * DigitBits - 1 - x.e))
    IN  (twice \div 2) + (twice % 2)

\* calculateVotePercentage(optionVotes, totalVotes) of lib/database.ts, for
\* 0 <= optionVotes <= totalVotes
calculateVotePercentage(optionVotes, totalVotes) ==
    IF totalVotes = 0 THEN 0
    ELSE IF optionVotes = 0 THEN 0
    ELSE MathRound(Times(Divide(optionVotes, totalVotes), 100))

\* ------------------------------------------------------------------ state
\* the store is empty and nothing is being read or computed
EmptyStore ==
    /\ polls = <<>>
    /\ poll_options = <<>>
    /\ votes = EmptyBag
    /\ now = 0
    /\ next_poll_id = 1
    /\ next_option_id = 1
    /\ listing = NULL
    /\ inflight = <<>>

Init == EmptyStore /\ calc = NULL

\* ------------------------------------------------------------------ inputs
MaxOptionId == 4
OptionIdInputs == SeqsUpTo(1..MaxOptionId, MaxSel)
VoteFaults == {{}, {"select_poll"}, {"delete_votes"}, {"insert_votes"}}
CreateFaults == {{}, {"insert_poll"}, {"insert_options"},
                 {"insert_options", "delete_poll"}}
ValidTitle == <<"a", "b", "c">>

\* <<session of the shared client, userId argument>> of a repository call: a
\* user acting for themselves, for the other user, or without a session
RepositoryCallers ==
    {<<u, u>> : u \in Users} \cup {<<"u2", "u1">>, <<Anon, "u1">>}

\* the polls the voting specification creates: two options each, asked for
\* by u1, by u2 in u1's name and without a session
VotingCallers == {<<"u1", "u1">>, <<"u2", "u1">>, <<Anon, "u1">>}
VotingCreateInputs ==
    [title : {ValidTitle}, options : {<<<<"a">>, <<"b">>>>},
     allow_multiple_choices : BOOLEAN, expires_at : {NULL, <<1>>}]

\* ----------------------------------------------------------------- actions
CastVote ==
    \E c \in RepositoryCallers, pollId \in PollIds,
       option_ids \in OptionIdInputs, faults \in VoteFaults :
        LET r == castVote(polls, poll_options, votes, now, c[1], pollId, option_ids,
                          c[2], faults)
        IN  /\ BagCardinality(r.votes) <= MaxVotes
            /\ votes' = r.votes
            /\ UNCHANGED <<polls, poll_options, now, next_poll_id, next_option_id, listing, calc, inflight>>

PostVoteRoute ==
    \E user \in Sessions, pollId \in PollIds, option_ids \in OptionIdInputs,
       faults \in VoteFaults :
        LET r == PostVote(polls, poll_options, votes, now, user, pollId, option_ids,
                          faults)
        IN  /\ BagCardinality(r.votes) <= MaxVotes
            /\ votes' = r.votes
            /\ UNCHANGED <<polls, poll_options, now, next_poll_id, next_option_id, listing, calc, inflight>>

RemoveVote ==
    \E c \in RepositoryCallers, pollId \in PollIds,
       optionId \in {NULL} \cup {<<o>> : o \in 1..MaxOptionId},
       faults \in {{}, {"delete_votes"}} :
        LET r == removeVote(polls, votes, now, c[1], pollId, c[2], optionId, faults)
        IN  /\ votes' = r.votes
            /\ UNCHANGED <<polls, poll_options, now, next_poll_id, next_option_id, listing, calc, inflight>>

CreatePollOver(Callers, Inputs, Faults) ==
    \E c \in Callers, pollData \in Inputs, faults \in Faults :
        LET r == createPoll(polls, poll_options, votes, now, next_poll_id,
                            next_option_id, c[1], pollData, c[2], faults)
        IN  /\ next_poll_id <= MaxPolls
            /\ next_option_id + Len(pollData.options) - 1 <= MaxOptionId
            /\ polls' = r.polls
            /\ poll_options' = r.poll_options
            /\ votes' = r.votes
            /\ next_poll_id' = r.next_poll_id
            /\ next_option_id' = r.next_option_id
            /\ UNCHANGED <<now, listing, calc, inflight>>

PostPollsOver(Inputs, Faults) ==
    \E user \in Sessions, body \in Inputs, faults \in Faults :
        LET r == PostPolls(polls, poll_options, votes, now, next_poll_id,
                           next_option_id, user, body, faults)
        IN  /\ next_poll_id <= MaxPolls
            /\ polls' = r.polls
            /\ poll_options' = r.poll_options
            /\ votes' = r.votes
            /\ next_poll_id' = r.next_poll_id
            /\ next_option_id' = r.next_option_id
            /\ UNCHANGED <<now, listing, calc, inflight>>

UpdatePollOver(Inputs) ==
    \E c \in RepositoryCallers, pollId \in PollIds, updates \in Inputs,
       faults \in {{}, {"update_poll"}} :
        LET r == updatePoll(polls, now, c[1], pollId, updates, c[2], faults)
        IN  /\ polls' = r.polls
            /\ UNCHANGED <<poll_options, votes, now, next_poll_id, next_option_id, listing, calc, inflight>>

\* time passes
Tick ==
    /\ now < MaxTime
    /\ now' = now + 1
    /\ UNCHANGED <<polls, poll_options, votes, next_poll_id, next_option_id, listing, calc, inflight>>

\* polls are created, switched on and off, voted on, and time passes
CreatePoll == CreatePollOver(VotingCallers, VotingCreateInputs, {{}})
UpdatePoll == UpdatePollOver({[is_active |-> FALSE], [is_active |-> TRUE]})

\* poll creation on its own, over titles and option texts that need trimming,
\* are blank, too short or equal up to case, with store faults
MaxCreated == 1
CreateTitles == {<<" ">>, <<"a", "b">>, <<" ", "a", "b", "c">>}
CreateOptionTexts == {<<" ">>, <<"a">>, <<" ", "A">>, <<"b">>}
CreateInputs ==
    [title : CreateTitles, options : SeqsUpTo(CreateOptionTexts, MaxOpts),
     allow_multiple_choices : BOOLEAN, expires_at : {NULL, <<1>>}]


\* requests with as many options as are allowed, and with one more
OptionLetters == <<"a", "b", "c", "d", "e", "f", "g", "h", "i", "j", "k">>
ManyOptions(n) == [i \in 1..n |-> <<OptionLetters[i]>>]
LimitInputs ==
    [title : {ValidTitle},
     options : {ManyOptions(MaxOptionsAllowed), ManyOptions(MaxOptionsAllowed + 1)},
     allow_multiple_choices : {FALSE}, expires_at : {NULL}]
RouteInputs == CreateInputs \cup LimitInputs

CreatePollAlone ==
    next_poll_id <= MaxCreated /\ CreatePollOver(RepositoryCallers, CreateInputs, CreateFaults)
PostPollsRoute ==
    next_poll_id <= MaxCreated /\ PostPollsOver(RouteInputs, CreateFaults)


\* the store after a creation handler that answered r
CreationStored(r) ==
    /\ polls' = r.polls
    /\ poll_options' = r.poll_options
    /\ votes' = r.votes
    /\ next_poll_id' = r.next_poll_id
    /\ next_option_id' = r.next_option_id
    /\ UNCHANGED <<now, listing, calc, inflight>>

PostPollsTokenRoute ==
    \E bearer \in Bearers, body \in RouteInputs, faults \in CreateFaults :
        /\ next_poll_id <= MaxCreated
        /\ CreationStored(PostPollsToken(polls, poll_options, votes, now, next_poll_id,
                                         next_option_id, bearer, body, faults))

PostPollsCreateRoute ==
    \E bearer \in Bearers, body \in RouteInputs, faults \in CreateFaults :
        /\ next_poll_id <= MaxCreated
        /\ CreationStored(PostPollsCreate(polls, poll_options, votes, now, next_poll_id,
                                          next_option_id, bearer, body, faults))

NextCreate ==
    CreatePollAlone \/ PostPollsRoute \/ PostPollsTokenRoute \/ PostPollsCreateRoute \/ Tick

SpecCreate == Init /\ [][NextCreate]_vars

\* poll management: polls of both users are created, voted on, updated and
\* deleted through the repository functions and through the routes
ManageCreateInputs ==
    [title : {ValidTitle}, options : {<<<<"a">>, <<"b">>>>},
     allow_multiple_choices : BOOLEAN, expires_at : {NULL}]
UpdateInputs ==
    {[is_active |-> FALSE], [is_active |-> TRUE], [title |-> <<"a", "b", "c", "d">>]}
PatchInputs ==
    UpdateInputs \cup {[title |-> <<" ">>], [title |-> <<" ", "a", "b", "c", "d">>], <<>>}
UpdateFaults == {{}, {"update_poll"}}
DeleteFaults == {{}, {"delete_poll"}}

ManageCreate ==
    \E bearer \in Bearers, body \in ManageCreateInputs :
        /\ next_poll_id <= MaxPolls
        /\ CreationStored(PostPollsToken(polls, poll_options, votes, now, next_poll_id,
                                         next_option_id, bearer, body, {}))

ManageVote ==
    \E user \in Users, pollId \in PollIds, o \in 1..MaxOptionId :
        LET r == PostVote(polls, poll_options, votes, now, user, pollId, <<o>>, {})
        IN  /\ BagCardinality(r.votes) <= MaxVotes
            /\ votes' = r.votes
            /\ UNCHANGED <<polls, poll_options, now, next_poll_id, next_option_id, listing, calc, inflight>>

ManageUpdate == UpdatePollOver(UpdateInputs)

PatchPollRoute ==
    \E bearer \in Bearers, pollId \in PollIds, body \in PatchInputs,
       faults \in UpdateFaults :
        LET r == PatchPoll(polls, now, bearer, pollId, body, faults)
        IN  /\ polls' = r.polls
            /\ UNCHANGED <<poll_options, votes, now, next_poll_id, next_option_id, listing, calc, inflight>>

DeletePoll ==
    \E c \in RepositoryCallers, pollId \in PollIds, faults \in DeleteFaults :
        LET r == deletePoll(polls, poll_options, votes, c[1], pollId, c[2], faults)
        IN  /\ polls' = r.polls
            /\ poll_options' = r.poll_options
            /\ votes' = r.votes
            /\ UNCHANGED <<now, next_poll_id, next_option_id, listing, calc, inflight>>

DeletePollRoute ==
    \E bearer \in Bearers, pollId \in PollIds, faults \in DeleteFaults :
        LET r == DeletePollRequest(polls, poll_options, votes, bearer, pollId, faults)
        IN  /\ polls' = r.polls
            /\ poll_options' = r.poll_options
            /\ votes' = r.votes
            /\ UNCHANGED <<now, next_poll_id, next_option_id, listing, calc, inflight>>

NextManage ==
    \/ ManageCreate \/ ManageVote \/ ManageUpdate \/ PatchPollRoute
    \/ DeletePoll \/ DeletePollRoute

SpecManage == Init /\ [][NextManage]_vars

\* poll editing over time: polls are created with and without an expiry,
\* voted on, and updated through updatePoll and through PATCH with every
\* column a caller can name, while time passes
Expiries == {NULL} \cup {<<n>> : n \in 0..MaxTime}
EditCreateInputs ==
    [title : {ValidTitle}, options : {<<<<"a">>, <<"b">>>>},
     allow_multiple_choices : BOOLEAN, expires_at : {NULL, <<MaxTime>>}]
EditInputs ==
    UpdateInputs \cup {[expires_at |-> e] : e \in Expiries}
                 \cup {[allow_multiple_choices |-> b] : b \in BOOLEAN}
                 \cup {[creator_id |-> u] : u \in Users}
PatchEditInputs ==
    PatchInputs \cup {[expires_at |-> e] : e \in Expiries \cup {InvalidDate}}
                \cup {[allow_multiple_choices |-> b] : b \in BOOLEAN}
                \cup {[title |-> <<"a", "b", "c", "d">>, allow_multiple_choices |-> b] :
                         b \in BOOLEAN}

EditCreate ==
    \E bearer \in Bearers, body \in EditCreateInputs :
        /\ next_poll_id <= MaxCreated
        /\ CreationStored(PostPollsToken(polls, poll_options, votes, now, next_poll_id,
                                         next_option_id, bearer, body, {}))

EditUpdate == UpdatePollOver(EditInputs)

EditPatch ==
    \E bearer \in Bearers, pollId \in PollIds, body \in PatchEditInputs,
       faults \in UpdateFaults :
        LET r == PatchPoll(polls, now, bearer, pollId, body, faults)
        IN  /\ polls' = r.polls
            /\ UNCHANGED <<poll_options, votes, now, next_poll_id, next_option_id, listing, calc, inflight>>

NextEdit == EditCreate \/ ManageVote \/ EditUpdate \/ EditPatch \/ Tick

SpecEdit == Init /\ [][NextEdit]_vars

\* reading while votes change: polls are created and deleted by u1, votes
\* are cast and removed, and a listing runs its poll query and then, poll by
\* poll, its option fetches
StatusFilters == {"active", "expired", "inactive", "all"}

ReadCreate ==
    \E body \in ManageCreateInputs :
        /\ next_poll_id <= MaxPolls
        /\ CreationStored(PostPollsToken(polls, poll_options, votes, now, next_poll_id,
                                         next_option_id, "u1", body, {}))

\* getPolls up to the answer of its poll query; a query without rows returns
\* at once
ListPollsQuery ==
    /\ listing = NULL
    /\ \E status \in StatusFilters :
          LET rows == GetPollsQuery(polls, votes, now, status)
          IN  listing' = IF DOMAIN rows = {} THEN NULL ELSE <<rows>>
    /\ UNCHANGED <<polls, poll_options, votes, now, next_poll_id, next_option_id, calc, inflight>>

\* getPolls fetches the options of one poll of its query; after the last
\* poll it returns
ListPollsFetch ==
    /\ listing # NULL
    /\ \E p \in DOMAIN listing[1] :
          LET rest == [q \in DOMAIN listing[1] \ {p} |-> listing[1][q]]
          IN  listing' = IF DOMAIN rest = {} THEN NULL ELSE <<rest>>
    /\ UNCHANGED <<polls, poll_options, votes, now, next_poll_id, next_option_id, calc, inflight>>

NextRead ==
    \/ ReadCreate \/ ManageVote \/ RemoveVote \/ DeletePollRoute
    \/ ListPollsQuery \/ ListPollsFetch

SpecRead == Init /\ [][NextRead]_vars

\* the percentage of every pair of counts 0 <= optionVotes <= totalVotes
MaxTotal == 40
PercentageInputs ==
    {x \in [optionVotes : 0..MaxTotal, totalVotes : 0..MaxTotal, result : {NULL}] :
        x.optionVotes <= x.totalVotes}

InitPercentage == EmptyStore /\ calc \in PercentageInputs

CalculateVotePercentage ==
    /\ calc # NULL /\ calc.result = NULL
    /\ calc' = [calc EXCEPT
                  !.result = <<calculateVotePercentage(calc.optionVotes, calc.totalVotes)>>]
    /\ UNCHANGED <<polls, poll_options, votes, now, next_poll_id, next_option_id, listing,
                   inflight>>

SpecPercentage == InitPercentage /\ [][CalculateVotePercentage]_vars

\* ------------------------------------------------- overlapping requests
\* inflight holds the calls that have started, in the order they started. A
\* vote submission is [op, via, user, poll_id, option_ids, pc, error, deleted,
\* began, ended]: pc is its next store statement, and deleted, began and
\* ended are NULL or <<the instant>> its delete ran, its insert was checked by
\* the store and its insert was committed or refused.
MaxCalls == 2
VoteHandlers == {"castVote", "route"}
RaceOptionIds == {<<1>>, <<2>>}

\* the instants used so far: one per store statement of a submission
Clock(calls) ==
    Cardinality({<<i, f>> \in (DOMAIN calls) \X {"deleted", "began", "ended"} :
                    calls[i][f] # NULL})

\* rows added to the table
RECURSIVE AppendRows(_, _)
AppendRows(V, rows) ==
    IF rows = <<>> THEN V ELSE AppendRows(V (+) SetToBag({Head(rows)}), Tail(rows))

\* castVote / POST /api/polls/vote up to the point where the poll has been
\* read and checked: NULL when the handler returns there, else <<the poll row>>
VoteAdmitted(P, t, via, user, pollId, option_ids) ==
    LET sel == SelectPoll(P, pollId, user, t, FALSE) IN
    IF sel.error # NoError \/ sel.data = NULL THEN NULL
    ELSE IF ~sel.data[1].is_active THEN NULL
    ELSE IF sel.data[1].expires_at # NULL /\ sel.data[1].expires_at[1] < t THEN NULL
    ELSE IF via = "route" /\ (Len(option_ids) = 0 \/
                (~sel.data[1].allow_multiple_choices /\ Len(option_ids) > 1))
    THEN NULL
    ELSE sel.data

\* a submission starts: the handler reads the poll and goes on to its first
\* store statement on votes
VoteBegin ==
    \E via \in VoteHandlers, user \in Users, pollId \in PollIds,
       option_ids \in RaceOptionIds :
        LET poll == VoteAdmitted(polls, now, via, user, pollId, option_ids) IN
        /\ Len(inflight) < MaxCalls
        /\ poll # NULL
        /\ inflight' = Append(inflight,
              [op |-> "vote", via |-> via, user |-> user, poll_id |-> pollId,
               option_ids |-> option_ids,
               pc |-> IF poll[1].allow_multiple_choices THEN "insert" ELSE "delete",
               error |-> NoError, deleted |-> NULL, began |-> NULL, ended |-> NULL])
        /\ UNCHANGED <<polls, poll_options, votes, now, next_poll_id, next_option_id,
                       listing, calc>>

\* the delete of the user's earlier votes on a single-choice poll
VoteDelete ==
    \E i \in DOMAIN inflight :
        LET c == inflight[i] IN
        /\ c.op = "vote" /\ c.pc = "delete"
        /\ votes' = DeleteVotes(polls, votes, c.poll_id, c.user, NULL, c.user, now,
                                FALSE).votes
        /\ inflight' = [inflight EXCEPT ![i].pc = "insert",
                                        ![i].deleted = <<Clock(inflight) + 1>>]
        /\ UNCHANGED <<polls, poll_options, now, next_poll_id, next_option_id,
                       listing, calc>>

\* the store takes the insert: triggers, policy and keys see the committed
\* rows and the rows of the statement itself; a refused statement ends here
VoteInsert ==
    \E i \in DOMAIN inflight :
        LET c == inflight[i]
            r == InsertVotes(polls, poll_options, votes,
                             VotesData(c.user, c.poll_id, c.option_ids), c.user, now, FALSE)
            at == Clock(inflight) + 1
        IN
        /\ c.op = "vote" /\ c.pc = "insert"
        /\ inflight' = IF r.error # NoError
                        THEN [inflight EXCEPT ![i].pc = "done", ![i].error = r.error,
                                              ![i].began = <<at>>, ![i].ended = <<at>>]
                        ELSE [inflight EXCEPT ![i].pc = "commit", ![i].began = <<at>>]
        /\ UNCHANGED <<polls, poll_options, votes, now, next_poll_id, next_option_id,
                       listing, calc>>

\* the insert commits: its rows become visible to every other statement
VoteCommit ==
    \E i \in DOMAIN inflight :
        LET c == inflight[i] IN
        /\ c.op = "vote" /\ c.pc = "commit"
        /\ votes' = AppendRows(votes, VotesData(c.user, c.poll_id, c.option_ids))
        /\ inflight' = [inflight EXCEPT ![i].pc = "done",
                                        ![i].ended = <<Clock(inflight) + 1>>]
        /\ UNCHANGED <<polls, poll_options, now, next_poll_id, next_option_id,
                       listing, calc>>

\* the polls the submissions are about, created by u1
RaceCreate ==
    \E body \in ManageCreateInputs :
        /\ next_poll_id <= MaxCreated
        /\ CreationStored(PostPollsToken(polls, poll_options, votes, now, next_poll_id,
                                         next_option_id, "u1", body, {}))

\* createPoll, statement by statement. A call in flight is [op, sess, user,
\* pollData, poll_id, pc, error]: pc is its next store statement.
\* The poll insert of createPoll
CreateBegin ==
    \E c \in VotingCallers, pollData \in VotingCreateInputs, fault \in BOOLEAN :
        LET row == [title |-> pollData.title, creator_id |-> c[2], is_active |-> TRUE,
                    allow_multiple_choices |-> pollData.allow_multiple_choices,
                    expires_at |-> pollData.expires_at, created_at |-> now]
            ins == InsertPoll(polls, next_poll_id, row, c[1], fault)
        IN  /\ Len(inflight) < MaxCalls
            /\ next_poll_id <= MaxPolls
            /\ polls' = ins.polls
            /\ next_poll_id' = IF ins.error = NoError THEN next_poll_id + 1
                                ELSE next_poll_id
            /\ inflight' = Append(inflight,
                  [op |-> "create", sess |-> c[1], user |-> c[2], pollData |-> pollData,
                   poll_id |-> next_poll_id,
                   pc |-> IF ins.error = NoError THEN "options" ELSE "done",
                   error |-> ins.error])
            /\ UNCHANGED <<poll_options, votes, now, next_option_id, listing, calc>>

\* the options insert of createPoll
CreateOptions ==
    \E i \in DOMAIN inflight, fault \in BOOLEAN :
        LET c == inflight[i]
            opt == InsertOptions(polls, poll_options, next_option_id,
                                 OptionsData(c.poll_id, c.pollData.options), c.sess, fault)
        IN  /\ c.op = "create" /\ c.pc = "options"
            /\ poll_options' = opt.poll_options
            /\ next_option_id' = IF opt.error = NoError
                                  THEN next_option_id + Len(c.pollData.options)
                                  ELSE next_option_id
            /\ inflight' = [inflight EXCEPT
                               ![i].pc = IF opt.error = NoError THEN "done" ELSE "cleanup",
                               ![i].error = opt.error]
            /\ UNCHANGED <<polls, votes, now, next_poll_id, listing, calc>>

\* the compensating delete of createPoll
CreateCleanup ==
    \E i \in DOMAIN inflight, fault \in BOOLEAN :
        LET c == inflight[i]
            del == DeletePollRow(polls, poll_options, votes, c.poll_id, c.sess, fault)
        IN  /\ c.op = "create" /\ c.pc = "cleanup"
            /\ polls' = del.polls
            /\ poll_options' = del.poll_options
            /\ votes' = del.votes
            /\ inflight' = [inflight EXCEPT ![i].pc = "done"]
            /\ UNCHANGED <<now, next_poll_id, next_option_id, listing, calc>>

NextWindow == CreateBegin \/ CreateOptions \/ CreateCleanup \/ Tick

SpecWindow == Init /\ [][NextWindow]_vars

NextRace == RaceCreate \/ VoteBegin \/ VoteDelete \/ VoteInsert \/ VoteCommit

SpecRace == Init /\ [][NextRace]_vars

Next == CreatePoll \/ UpdatePoll \/ CastVote \/ PostVoteRoute \/ RemoveVote \/ Tick

Spec == Init /\ [][Next]_vars

\* ------------------------------------------------------------- properties
SingleChoice(p) == p \in DOMAIN polls /\ ~polls[p].allow_multiple_choices
OptionOf(o, p) == o \in DOMAIN poll_options /\ poll_options[o].poll_id = p
OneVote(u, p, o) == SetToBag({VoteRow(u, p, o)})

\* castVote and POST /api/polls/vote applied to the current store
CastVoteNow(c, p, ids, faults) ==
    castVote(polls, poll_options, votes, now, c[1], p, ids, c[2], faults)
PostVoteNow(u, p, ids, faults) ==
    PostVote(polls, poll_options, votes, now, u, p, ids, faults)

Inactive(p) == p \in DOMAIN polls /\ ~polls[p].is_active
Creator(p) == polls[p].creator_id

ExpiryReached(p) ==
    p \in DOMAIN polls /\ polls[p].expires_at # NULL /\ polls[p].expires_at[1] <= now

\* C4 as claimed, for the caller who can see the poll (its creator), on an
\* active poll, with one option of the poll submitted and no store fault: a
\* submission on a poll whose expiry is not strictly in the future fails with
\* PollExpired and inserts no vote row.
C4_Claim ==
    \A p \in DOMAIN polls, o \in DOMAIN poll_options :
        (ExpiryReached(p) /\ ~Inactive(p) /\ OptionOf(o, p)) =>
            LET a == CastVoteNow(<<Creator(p), Creator(p)>>, p, <<o>>, {})
                b == PostVoteNow(Creator(p), p, <<o>>, {})
            IN  /\ a.error = "POLL_EXPIRED"
                /\ b.error = "Poll has expired"
                /\ \A r \in DOMAIN a.votes : CopiesIn(r, a.votes) <= CopiesIn(r, votes)
                /\ \A r \in DOMAIN b.votes : CopiesIn(r, b.votes) <= CopiesIn(r, votes)

\* C5 as claimed, for a user voting for themselves on a visible, active,
\* unexpired single-choice poll with two options of that poll and no store
\* fault: the submission fails as MultipleNotAllowed (the route's message or
\* the store trigger's), inserts no vote row and deletes none.
C5_Claim ==
    \A p \in DOMAIN polls, u \in Users, ids \in OptionIdInputs :
        (/\ SingleChoice(p) /\ ~Inactive(p) /\ NotExpired(polls[p], now)
         /\ Len(ids) > 1 /\ \A i \in DOMAIN ids : OptionOf(ids[i], p)) =>
            LET a == CastVoteNow(<<u, u>>, p, ids, {})
                b == PostVoteNow(u, p, ids, {})
                MultipleNotAllowed == {"Multiple selections are not allowed",
                                       "Multiple votes not allowed on this poll"}
            IN  /\ a.error \in MultipleNotAllowed /\ a.votes = votes
                /\ b.error \in MultipleNotAllowed /\ b.votes = votes

\* C6 as claimed, for a user voting for themselves on a visible, active,
\* unexpired poll with no store fault: a submission with an empty option list
\* is refused before any write, so that the votes table is as it was (the
\* answer of castVote, which is the store's answer to an insert of no rows,
\* is left open here).
C6_Claim ==
    \A p \in DOMAIN polls, u \in Users :
        (~Inactive(p) /\ NotExpired(polls[p], now)) =>
            LET a == CastVoteNow(<<u, u>>, p, <<>>, {})
                b == PostVoteNow(u, p, <<>>, {})
            IN  /\ a.votes = votes
                /\ b.error # NoError /\ b.votes = votes

\* no vote row is added between two states of the votes table
NoRowAdded(V, W) == \A r \in DOMAIN W : CopiesIn(r, W) <= CopiesIn(r, V)

\* C7: when the insert of a submission fails - the store fails the statement,
\* or one of the submitted option ids is refused - the submission reports an
\* error and none of its rows is stored.
C7_NoPartialInsert ==
    \A p \in PollIds, ids \in OptionIdInputs, faults \in VoteFaults :
        ("insert_votes" \in faults \/ \E i \in DOMAIN ids : ~OptionOf(ids[i], p)) =>
            /\ \A c \in RepositoryCallers :
                LET r == CastVoteNow(c, p, ids, faults)
                IN  r.error # NoError /\ NoRowAdded(votes, r.votes)
            /\ \A u \in Sessions :
                LET r == PostVoteNow(u, p, ids, faults)
                IN  r.error # NoError /\ r.status # 200 /\ NoRowAdded(votes, r.votes)

\* on an open multiple-choice poll a user submits an option of the poll
\* followed by an option of another poll: the store refuses the second row
C7_Witness ==
    \E p \in DOMAIN polls, o1, o2 \in DOMAIN poll_options, u \in Users :
        /\ ~SingleChoice(p) /\ OptionOf(o1, p) /\ ~OptionOf(o2, p)
        /\ CastVoteNow(<<u, u>>, p, <<o1>>, {}).error = NoError
        /\ CastVoteNow(<<u, u>>, p, <<o1, o2>>, {}).error
              = "Option does not belong to the specified poll"
        /\ PostVoteNow(u, p, <<o1, o2>>, {}).status = 500
        /\ UserPollVotes(votes, u, p) > 0

\* C8: every stored vote's option is an option of the vote's poll, and a
\* submission that names an option of another poll is refused by the store.
C8_OptionBelongsToPoll ==
    /\ \A r \in DOMAIN votes : OptionOf(r.option_id, r.poll_id)
    /\ \A p \in DOMAIN polls, u \in Users, ids \in OptionIdInputs :
        (\E i \in DOMAIN ids : ids[i] \in DOMAIN poll_options /\ ~OptionOf(ids[i], p)) =>
            /\ CastVoteNow(<<u, u>>, p, ids, {}).error # NoError
            /\ PostVoteNow(u, p, ids, {}).status # 200

\* both polls hold votes, and a vote on the first poll for an option of the
\* second is refused because of the option
C8_Witness ==
    \E p, q \in DOMAIN polls, o \in DOMAIN poll_options, u \in Users :
        /\ p # q /\ OptionOf(o, q)
        /\ PollVotes(votes, p) > 0 /\ PollVotes(votes, q) > 0
        /\ PostVoteNow(u, p, <<o>>, {}).error
              = "Option does not belong to the specified poll"

\* createPoll and POST /api/polls applied to the current store
CreatePollNow(c, pollData, faults) ==
    createPoll(polls, poll_options, votes, now, next_poll_id, next_option_id,
               c[1], pollData, c[2], faults)
PostPollsNow(u, body, faults) ==
    PostPolls(polls, poll_options, votes, now, next_poll_id, next_option_id,
              u, body, faults)

\* the option rows of a poll, as the set of <<order, text>>
OptionRowsOf(O, p) == {<<O[o].order, O[o].text>> : o \in {x \in DOMAIN O : O[x].poll_id = p}}

\* one of the two inserts of createPoll fails: the store fails the statement,
\* a policy refuses the caller, or a CHECK constraint refuses a row
InsertFails(c, pollData, faults) ==
    \/ "insert_poll" \in faults \/ "insert_options" \in faults
    \/ c[1] # c[2]
    \/ Len(pollData.title) < TitleMinLength
    \/ pollData.expires_at # NULL /\ pollData.expires_at[1] <= now
    \/ \E i \in DOMAIN pollData.options : Trim(pollData.options[i]) = <<>>

PassesValidation(body) ==
    /\ Trim(body.title) # <<>>
    /\ Len(body.options) >= 2 /\ Len(body.options) <= MaxOptionsAllowed
    /\ \A i \in DOMAIN body.options : Trim(body.options[i]) # <<>>
    /\ \A i, j \in DOMAIN body.options :
          i # j => ToLowerCase(Trim(body.options[i])) # ToLowerCase(Trim(body.options[j]))
    /\ body.expires_at = NULL \/ body.expires_at[1] > now

\* C10 as claimed, with no store fault and a signed-in caller: every input
\* that passes validation is created, and the stored and the returned poll
\* have the submitted option texts, trimmed, in order, with order 0..N-1 and
\* no votes.
C10_Claim ==
    \A u \in Users, body \in CreateInputs :
        (PassesValidation(body) /\ next_poll_id <= MaxCreated) =>
            LET r == PostPollsNow(u, body, {})
                n == Len(body.options)
            IN  /\ r.status = 201 /\ r.error = NoError
                /\ OptionRowsOf(r.poll_options, next_poll_id)
                      = {<<i - 1, Trim(body.options[i])>> : i \in 1..n}
                /\ r.data # NULL
                /\ r.data[1].options
                      = [i \in 1..n |-> [text |-> Trim(body.options[i]), order |-> i - 1,
                                         vote_count |-> 0]]
                /\ r.data[1].total_votes = 0

\* the creation handlers applied to the current store
PostPollsTokenNow(b, body, faults) ==
    PostPollsToken(polls, poll_options, votes, now, next_poll_id, next_option_id,
                   b, body, faults)
PostPollsCreateNow(b, body, faults) ==
    PostPollsCreate(polls, poll_options, votes, now, next_poll_id, next_option_id,
                    b, body, faults)
PostPollsCreateMockNow(b, body) ==
    PostPollsCreateMock(polls, poll_options, votes, now, next_poll_id, next_option_id,
                        b, body)

\* the entries of an option list that are not empty after trimming
NonEmptyOptions(options) ==
    {i \in DOMAIN options : Trim(options[i]) # <<>>}

\* the handler's answer is the too-few-options validation error and the
\* store is as it was
TooFewOptionsAnswer(r) ==
    /\ r.status = 400
    /\ r.error \in {"At least 2 options are required",
                    "At least 2 non-empty options are required"}
    /\ r.polls = polls /\ r.poll_options = poll_options

\* C11 as claimed, for a signed-in caller, a title that is not blank and no
\* store fault: a creation request with fewer than 2 options that are not
\* empty after trimming is answered with the too-few-options validation error
\* by every creation endpoint, and no poll row and no option row is stored.
C11_Claim ==
    \A u \in Users, body \in CreateInputs :
        (/\ Trim(body.title) # <<>>
         /\ Cardinality(NonEmptyOptions(body.options)) < 2
         /\ next_poll_id <= MaxCreated) =>
            /\ TooFewOptionsAnswer(PostPollsNow(u, body, {}))
            /\ TooFewOptionsAnswer(PostPollsTokenNow(u, body, {}))
            /\ TooFewOptionsAnswer(PostPollsCreateNow(u, body, {}))

\* two option texts are the same option: equal after trimming, letter by
\* letter up to case
SameOption(a, b) ==
    LET x == Trim(a)
        y == Trim(b)
        SameLetter(c, d) == c = d \/ {c, d} = {"a", "A"}
    IN  Len(x) = Len(y) /\ \A i \in DOMAIN x : SameLetter(x[i], y[i])

\* two of the options that are not blank are the same option
HasDuplicates(options) ==
    \E i, j \in NonEmptyOptions(options) : i # j /\ SameOption(options[i], options[j])

\* the handler's answer is the duplicate-options validation error and the
\* store is as it was
DuplicateOptionsAnswer(r) ==
    /\ r.status = 400 /\ r.error = "All options must be unique" /\ r.data = NULL
    /\ r.polls = polls /\ r.poll_options = poll_options /\ r.votes = votes
    /\ r.next_poll_id = next_poll_id /\ r.next_option_id = next_option_id

OptionCount(O, p) == Cardinality({o \in DOMAIN O : O[o].poll_id = p})

\* C13 as claimed: in every reachable state no stored poll has more than 10
\* options, every creation path having refused a longer option list.
C13_Claim ==
    \A p \in DOMAIN polls : OptionCount(poll_options, p) <= MaxOptionsAllowed

\* updatePoll and PATCH /api/polls/[id] applied to the current store
UpdatePollNow(c, p, updates, faults) ==
    updatePoll(polls, now, c[1], p, updates, c[2], faults)
PatchPollNow(b, p, body, faults) == PatchPoll(polls, now, b, p, body, faults)

\* the poll exists and the user is its creator
IsCreator(user, p) == p \in DOMAIN polls /\ polls[p].creator_id = user

\* C14: an update of a poll asked for by someone who is not the poll's
\* creator (the user named to updatePoll or the session it runs under is not
\* the creator; the user of the PATCH request's token is not), or of a poll
\* id that does not exist, returns an error and leaves every poll row as it
\* was.
C14_UpdateByOthersRefused ==
    \A p \in PollIds :
        /\ \A c \in RepositoryCallers, updates \in UpdateInputs, faults \in UpdateFaults :
              ~(IsCreator(c[1], p) /\ IsCreator(c[2], p)) =>
                  LET r == UpdatePollNow(c, p, updates, faults)
                  IN  r.error # NoError /\ r.polls = polls
        /\ \A b \in Bearers, body \in PatchInputs, faults \in UpdateFaults :
              ~IsCreator(GetUser(b), p) =>
                  LET r == PatchPollNow(b, p, body, faults)
                  IN  r.error # NoError /\ r.status \in {400, 401, 500} /\ r.polls = polls

\* polls of both users are stored and one poll id is not: each creator can
\* rename their own poll, and is refused with the no-rows error on the
\* other's poll
C14_Witness ==
    \E p, q \in DOMAIN polls :
        /\ IsCreator("u1", p) /\ IsCreator("u2", q)
        /\ ~polls[p].is_active
        /\ UpdatePollNow(<<"u1", "u1">>, p, [is_active |-> TRUE], {}).error = NoError
        /\ UpdatePollNow(<<"u1", "u1">>, q, [is_active |-> FALSE], {}).error = NoRows
        /\ UpdatePollNow(<<"u2", "u1">>, p, [is_active |-> TRUE], {}).error = NoRows
        /\ PatchPollNow("u2", p, [is_active |-> TRUE], {}).status = 500
        /\ PatchPollNow("u2", q, [is_active |-> FALSE], {}).status = 200

\* deletePoll and DELETE /api/polls/[id] applied to the current store
DeletePollNow(c, p, faults) ==
    deletePoll(polls, poll_options, votes, c[1], p, c[2], faults)
DeletePollRequestNow(b, p, faults) ==
    DeletePollRequest(polls, poll_options, votes, b, p, faults)

\* the answer left every poll, option and vote row in place
NothingDeleted(r) ==
    r.polls = polls /\ r.poll_options = poll_options /\ r.votes = votes

\* C15 as claimed, for a stored poll and no store fault: when the requesting
\* user (the user named to deletePoll and the session it runs under, or the
\* user of the DELETE request's token) is not the poll's creator, no poll,
\* option or vote row is deleted and the operation signals failure.
C15_Claim ==
    \A p \in DOMAIN polls, u \in Users :
        ~IsCreator(u, p) =>
            LET a == DeletePollNow(<<u, u>>, p, {})
                b == DeletePollRequestNow(u, p, {})
            IN  /\ NothingDeleted(a) /\ a.error # NoError
                /\ NothingDeleted(b) /\ b.status # 200

\* getPoll applied to the current store
GetPollNow(c, p, faults) ==
    getPoll(polls, poll_options, votes, now, c[1], p, c[2], faults)
ReadFaults == {{}, {"select_poll"}, {"select_options"}}
\* <<session, userId argument>> of a read: a user for themselves, a user
\* without the userId argument, and a visitor without a session
Readers == {<<u, <<u>>>> : u \in Users} \cup {<<u, NULL>> : u \in Sessions}

\* the poll id was given out and its row is gone: as the store gives out
\* each id once, its creator has deleted the poll
Deleted(p) == p \in 1..(next_poll_id - 1) /\ p \notin DOMAIN polls

\* C16: once the creator has deleted a poll, every getPoll for its id fails
\* (as not found, unless the read itself fails), and no option row and no
\* vote row refers to it: every option row is of a stored poll and every
\* vote row of a stored poll and a stored option.
C16_DeletedPollGone ==
    /\ \A p \in PollIds :
          Deleted(p) =>
              /\ \A c \in Readers, faults \in ReadFaults :
                    LET r == GetPollNow(c, p, faults)
                    IN  /\ r.data = NULL
                        /\ r.error = IF "select_poll" \in faults THEN StoreError ELSE NoRows
              /\ \A o \in DOMAIN poll_options : poll_options[o].poll_id # p
              /\ \A v \in DOMAIN votes : v.poll_id # p
    /\ \A o \in DOMAIN poll_options : poll_options[o].poll_id \in DOMAIN polls
    /\ \A v \in DOMAIN votes :
          v.poll_id \in DOMAIN polls /\ v.option_id \in DOMAIN poll_options

\* one poll has been deleted while the other, still stored, holds votes and
\* can be read with its options and counts
C16_Witness ==
    \E p \in PollIds, q \in DOMAIN polls :
        /\ Deleted(p)
        /\ PollVotes(votes, q) = MaxVotes
        /\ GetPollNow(<<"u1", <<"u1">>>>, p, {}).error = NoRows
        /\ LET r == GetPollNow(<<"u1", <<"u1">>>>, q, {})
           IN  r.error = NoError /\ r.data[1].total_votes = MaxVotes
                                /\ Len(r.data[1].options) = 2

\* the returned poll's option counts add up to its reported total
CountsAddUp(poll) == SumVoteCount(poll.options) = poll.total_votes

\* C17 as claimed: for every poll getPoll returns, and for every poll of a
\* listing whose options getPolls fetches now - votes may have been cast or
\* removed since its poll query - the vote counts of the returned options
\* add up to the total the poll reports.
C17_Claim ==
    /\ \A p \in DOMAIN polls, c \in Readers :
          LET r == GetPollNow(c, p, {})
          IN  r.error = NoError => CountsAddUp(r.data[1])
    /\ listing # NULL =>
          \A p \in DOMAIN listing[1] :
              CountsAddUp(GetPollsEntry(poll_options, votes, p, listing[1][p]))

\* n/d rounded to the nearest integer, a half rounding up (n >= 0, d > 0)
RoundHalfUp(n, d) == (2 * n + d) \div (2 * d)

\* C18 as claimed: for 0 <= v <= t, calculateVotePercentage(v, t) is 0 when
\* t = 0 and otherwise v/t*100 rounded half-up to the nearest integer; the
\* result is between 0 and 100.
C18_Claim ==
    (calc # NULL /\ calc.result # NULL) =>
        /\ calc.result[1] = IF calc.totalVotes = 0 THEN 0
                            ELSE RoundHalfUp(100 * calc.optionVotes, calc.totalVotes)
        /\ calc.result[1] \in 0..100

\* the rows of votes of a poll that name an option, counted one by one
VoteRowCount(V, pollId, optionId) ==
    BagCardinality([r \in {x \in DOMAIN V : x.poll_id = pollId /\ x.option_id = optionId}
                        |-> V[r]])

\* C19: for the stored votes, and for every option of every poll, the
\* vote_count of the view poll_options_with_stats, the vote_count returned by
\* get_poll_results, and the number of vote rows of the poll naming the
\* option are the same, option by option in the same order.
C19_CountsIdentical ==
    \A p \in DOMAIN polls :
        LET view == poll_options_with_stats(poll_options, votes, p)
            results == getPollResults(poll_options, votes, p, {}).data[1]
        IN  /\ Len(view) = Len(results)
            /\ \A i \in DOMAIN view :
                /\ view[i].id = results[i].option_id
                /\ view[i].vote_count = results[i].vote_count
                /\ results[i].vote_count = VoteRowCount(votes, p, view[i].id)

\* a poll is read whose options have different counts, one of them above one
C19_Witness ==
    \E p \in DOMAIN polls :
        LET results == getPollResults(poll_options, votes, p, {}).data[1]
        IN  \E i, j \in DOMAIN results :
                /\ results[i].vote_count >= 2
                /\ results[j].vote_count # results[i].vote_count

\* the Authorization headers that carry no valid identity
NoIdentity == {"missing", "invalid"}

\* the answer is 401 and left every poll, option and vote row as it was
RefusedUnwritten(r) ==
    /\ r.status = 401
    /\ r.polls = polls /\ r.poll_options = poll_options /\ r.votes = votes

\* the handlers that check the bearer token of the request with the identity
\* service: vote, creation, update and delete
TokenRoutesRefuse(b) ==
    /\ \A p \in PollIds, ids \in OptionIdInputs, faults \in VoteFaults :
            LET r == PostVoteNow(GetUser(b), p, ids, faults)
            IN  r.status = 401 /\ r.votes = votes
    /\ \A body \in ManageCreateInputs, faults \in CreateFaults :
            /\ RefusedUnwritten(PostPollsTokenNow(b, body, faults))
            /\ RefusedUnwritten(PostPollsCreateNow(b, body, faults))
    /\ \A p \in PollIds, body \in PatchInputs, faults \in UpdateFaults :
            LET r == PatchPollNow(b, p, body, faults)
            IN  r.status = 401 /\ r.polls = polls
    /\ \A p \in PollIds, faults \in DeleteFaults :
            RefusedUnwritten(DeletePollRequestNow(b, p, faults))

\* C20 as claimed: a poll creation, vote, poll update or poll delete request
\* whose bearer token is missing or invalid is answered with 401 and no poll,
\* option or vote row is created, updated or deleted. The creation handler
\* that calls createPoll does not read the request's token: it answers by the
\* session of the shared client, whatever the request carries.
C20_Claim ==
    \A b \in NoIdentity :
        /\ TokenRoutesRefuse(b)
        /\ \A body \in ManageCreateInputs :
                RefusedUnwritten(PostPollsCreateMockNow(b, body))
        /\ \A session \in Sessions, body \in ManageCreateInputs, faults \in CreateFaults :
                RefusedUnwritten(PostPollsNow(session, body, faults))

\* two finished submissions of one user on one single-choice poll, each for
\* an option of the poll, no other submission of the user on the poll, and
\* both deletes of earlier votes ran before either insert reached the store
DeletesBeforeInserts(i, j) ==
    LET a == inflight[i]
        b == inflight[j]
    IN  /\ i # j /\ a.op = "vote" /\ b.op = "vote"
        /\ a.user = b.user /\ a.poll_id = b.poll_id
        /\ SingleChoice(a.poll_id)
        /\ \A k \in DOMAIN inflight \ {i, j} :
                ~(inflight[k].user = a.user /\ inflight[k].poll_id = a.poll_id)
        /\ \A o \in {a.option_ids[1], b.option_ids[1]} : OptionOf(o, a.poll_id)
        /\ a.pc = "done" /\ b.pc = "done"
        /\ a.deleted # NULL /\ b.deleted # NULL
        /\ \A d \in {a.deleted[1], b.deleted[1]}, n \in {a.began[1], b.began[1]} : d < n

\* each insert reached the store before the other one was committed
InsertsOverlap(i, j) ==
    /\ inflight[i].began[1] < inflight[j].ended[1]
    /\ inflight[j].began[1] < inflight[i].ended[1]

\* C21 as claimed: when both deletes of two submissions by one user on a
\* single-choice poll run before either insert, both inserts succeed and the
\* user ends with two votes on the poll.
C21_Original ==
    \A i, j \in DOMAIN inflight :
        DeletesBeforeInserts(i, j) =>
            /\ inflight[i].error = NoError /\ inflight[j].error = NoError
            /\ UserPollVotes(votes, inflight[i].user, inflight[i].poll_id) = 2

\* C21 amended: with both deletes before either insert, both inserts succeed
\* and the user ends with two votes exactly when each insert reaches the
\* store before the other is committed; when one insert reaches the store
\* after the other is committed, the trigger validate_vote refuses it and the
\* user ends with one vote.
C21_RaceOutcome ==
    \A i, j \in DOMAIN inflight :
        DeletesBeforeInserts(i, j) =>
            LET votesNow == UserPollVotes(votes, inflight[i].user, inflight[i].poll_id)
                later == IF inflight[i].began[1] < inflight[j].began[1] THEN j ELSE i
            IN  IF InsertsOverlap(i, j)
                THEN /\ inflight[i].error = NoError /\ inflight[j].error = NoError
                     /\ votesNow = 2
                ELSE /\ inflight[later].error = "Multiple votes not allowed on this poll"
                     /\ \A k \in {i, j} \ {later} : inflight[k].error = NoError
                     /\ votesNow = 1

\* the race has happened with overlapping inserts: two votes are stored
C21_Witness ==
    \E i, j \in DOMAIN inflight :
        /\ DeletesBeforeInserts(i, j) /\ InsertsOverlap(i, j)
        /\ UserPollVotes(votes, inflight[i].user, inflight[i].poll_id) = 2

\* a createPoll call is between its poll insert and its option insert, or
\* between the failed option insert and its compensating delete
InWindow(c) == c.op = "create" /\ c.pc \in {"options", "cleanup"}

\* the SELECT policy of polls lets the reader's session see the poll
CanSee(sess, p) ==
    \/ polls[p].creator_id = sess
    \/ polls[p].is_active /\ (polls[p].expires_at = NULL \/ polls[p].expires_at[1] > now)

\* the listing status filters a poll passes at this moment
ListedUnder(p) ==
    {status \in StatusFilters : p \in DOMAIN GetPollsQuery(polls, votes, now, status)}

\* C22: while a createPoll call is between its poll insert and its option
\* insert (or its compensating delete), a getPoll by any reader whose session
\* may see the poll returns the poll with zero options, and getPolls lists it
\* (under 'all' and at least one more status) with zero options.
C22_PollWithoutOptionsVisible ==
    \A i \in DOMAIN inflight :
        InWindow(inflight[i]) =>
            LET p == inflight[i].poll_id IN
            /\ p \in DOMAIN polls
            /\ \A r \in Readers :
                    CanSee(r[1], p) =>
                        LET got == GetPollNow(r, p, {})
                        IN  /\ got.error = NoError /\ got.data # NULL
                            /\ got.data[1].id = p /\ got.data[1].options = <<>>
            /\ "all" \in ListedUnder(p) /\ Cardinality(ListedUnder(p)) >= 2
            /\ \A status \in ListedUnder(p) :
                    GetPollsEntry(poll_options, votes, p,
                                  GetPollsQuery(polls, votes, now, status)[p]).options = <<>>

\* a reader other than the creator reads a poll inside the window
C22_Witness ==
    \E i \in DOMAIN inflight, r \in Readers :
        /\ InWindow(inflight[i])
        /\ r[1] # inflight[i].user
        /\ CanSee(r[1], inflight[i].poll_id)
        /\ GetPollNow(r, inflight[i].poll_id, {}).data # NULL
        /\ GetPollNow(r, inflight[i].poll_id, {}).data[1].options = <<>>

\* C23 as claimed: when the delete of the user's prior votes in a submission
\* on a single-choice poll fails, the submission reports failure and inserts
\* no vote row.
C23_Claim ==
    \A p \in DOMAIN polls, u \in Users, ids \in OptionIdInputs :
        SingleChoice(p) =>
            LET a == CastVoteNow(<<u, u>>, p, ids, {"delete_votes"})
                b == PostVoteNow(u, p, ids, {"delete_votes"})
            IN  /\ a.error # NoError /\ NoRowAdded(votes, a.votes)
                /\ b.error # NoError /\ b.status # 200 /\ NoRowAdded(votes, b.votes)

\* C24 as claimed: a vote submission that returns an error leaves the user's
\* vote rows on the poll exactly as they were; on a single-choice poll the
\* vote recorded before is still there.
C24_Claim ==
    \A p \in DOMAIN polls, u \in Users, ids \in OptionIdInputs, faults \in VoteFaults :
        LET a == CastVoteNow(<<u, u>>, p, ids, faults)
            b == PostVoteNow(u, p, ids, faults)
        IN  /\ a.error # NoError => UserPollRows(a.votes, u, p) = UserPollRows(votes, u, p)
            /\ b.error # NoError => UserPollRows(b.votes, u, p) = UserPollRows(votes, u, p)

\* C29 as claimed: no user has more than one vote row for the same option of
\* the same poll.
C29_Claim ==
    \A r \in DOMAIN votes : CopiesIn(r, votes) <= 1

\* ------------------------------------------------------- expiry and edits
\* C25: in every reachable state every stored poll's expiry, if present, is
\* strictly after its creation time; no update, one supplying an expiry in
\* the past included, leaves a stored poll otherwise.
C25_ExpiryAfterCreation ==
    \A p \in DOMAIN polls :
        polls[p].expires_at = NULL \/ polls[p].expires_at[1] > polls[p].created_at

\* a poll carries an expiry in the past that an update gave it (creation
\* gives none or MaxTime), the creator's update to an expiry still further in
\* the past, at the creation time, is refused and one in between is stored
C25_Witness ==
    \E p \in DOMAIN polls :
        LET u == polls[p].creator_id
            back == PatchPollNow(u, p, [expires_at |-> <<polls[p].created_at>>], {})
            past == UpdatePollNow(<<u, u>>, p, [expires_at |-> <<now - 1>>], {})
        IN  /\ polls[p].expires_at # NULL /\ polls[p].expires_at[1] < MaxTime
            /\ polls[p].expires_at[1] < now
            /\ back.status = 500 /\ back.polls = polls
            /\ past.error = NoError /\ past.polls[p].expires_at = <<now - 1>>

\* the update left the poll p with every column that is not among the
\* supplied editable ones as it was, and every other poll as it was
FrameKept(P2, p, supplied) ==
    /\ DOMAIN P2 = DOMAIN polls
    /\ \A q \in DOMAIN polls \ {p} : P2[q] = polls[q]
    /\ \A f \in DOMAIN polls[p] :
          f \notin (supplied \cap PatchFields) => P2[p][f] = polls[p][f]

\* C26 as claimed: an update of a poll, by updatePoll or by PATCH, changes
\* only the columns the caller supplied among title, description, is_active,
\* expires_at and category_id; the creator, the allow_multiple_choices flag
\* and every other poll row are after it as they were before.
C26_Claim ==
    \A p \in DOMAIN polls :
        /\ \A c \in RepositoryCallers, updates \in EditInputs, faults \in UpdateFaults :
              FrameKept(UpdatePollNow(c, p, updates, faults).polls, p, DOMAIN updates)
        /\ \A b \in Bearers, body \in PatchEditInputs, faults \in UpdateFaults :
              FrameKept(PatchPollNow(b, p, body, faults).polls, p, DOMAIN body)

\* ------------------------------------------------- form and server checks
\* validateForm of components/polls/create-poll-form.tsx on the form's data
\* at time t: the message it returns, NoError for null
validateForm(formData, t) ==
    LET NonEmpty(option) == Trim(option) # <<>>
        nonEmptyOptions == SelectSeq(formData.options, NonEmpty)
        uniqueOptions ==
            {ToLowerCase(Trim(nonEmptyOptions[i])) : i \in DOMAIN nonEmptyOptions}
    IN
    IF Trim(formData.title) = <<>> THEN "Poll title is required"
    ELSE IF Len(nonEmptyOptions) < 2 THEN "At least 2 options are required"
    ELSE IF Cardinality(uniqueOptions) # Len(nonEmptyOptions)
    THEN "All options must be unique"
    ELSE IF formData.expires_at # NULL /\ formData.expires_at[1] <= t
    THEN "Expiry date must be in the future"
    ELSE NoError

\* the creation inputs of the routes, and a form with two filled and two
\* empty option fields
FormInputs ==
    RouteInputs \cup
    [title : {ValidTitle}, options : {<<<<"a">>, <<"b">>, <<" ">>, <<" ">>>>},
     allow_multiple_choices : {FALSE}, expires_at : {NULL}]

\* the validation of a creation endpoint accepted the request
ValidationAccepts(r) == r.status # 400

\* C27 as claimed: for every poll-creation input, validateForm accepts it
\* exactly if the validation of each poll-creation endpoint accepts it when a
\* signed-in user sends it at the same time.
C27_Claim ==
    \A body \in FormInputs, u \in Users :
        LET form == validateForm(body, now) = NoError
        IN  /\ form <=> ValidationAccepts(PostPollsTokenNow(u, body, {}))
            /\ form <=> ValidationAccepts(PostPollsCreateNow(u, body, {}))
            /\ form <=> ValidationAccepts(PostPollsCreateMockNow(u, body))

\* ------------------------------------------------------- status filters
\* the polls the poll query of getPolls returns now under a status filter
ListedNow(status) == DOMAIN GetPollsQuery(polls, votes, now, status)

\* the poll's active flag is true and its expiry is absent or in the future
CurrentlyActive(p) ==
    polls[p].is_active /\ (polls[p].expires_at = NULL \/ polls[p].expires_at[1] > now)

\* C28 as claimed: at any time every stored poll is listed under exactly one
\* of the status filters 'active', 'expired' and 'inactive'; 'active' lists
\* exactly the polls whose active flag is true and whose expiry is absent or
\* in the future, 'expired' exactly those whose active flag is true and that
\* are not currently active, 'inactive' exactly those whose flag is false.
C28_Claim ==
    \A p \in DOMAIN polls :
        /\ Cardinality({f \in {"active", "expired", "inactive"} : p \in ListedNow(f)}) = 1
        /\ p \in ListedNow("active") <=> CurrentlyActive(p)
        /\ p \in ListedNow("expired") <=> polls[p].is_active /\ ~CurrentlyActive(p)
        /\ p \in ListedNow("inactive") <=> ~polls[p].is_active

\* ------------------------------------------------------------ pagination
\* the limit of GET /api/polls when the query names none, and the page length
\* getPolls gives range() when it has an offset and no limit
DefaultLimit == 20
DefaultRange == 10

\* the ids of S from the newest poll to the oldest (order('created_at',
\* descending); ids are given out in creation order)
RECURSIVE NewestFirst(_)
NewestFirst(S) ==
    IF S = {} THEN <<>>
    ELSE LET m == CHOOSE x \in S : \A y \in S : y <= x
         IN  <<m>> \o NewestFirst(S \ {m})

\* the rows first..last (counted from 0) of a result
Range(rows, first, last) ==
    [i \in 1..(IF Len(rows) > last THEN last + 1 - first ELSE Len(rows) - first) |->
        rows[first + i]]

\* the poll query of getPolls with its pagination: limit(n) when a limit is
\* given, then range(offset, offset + (limit || 10) - 1) when an offset is
\* given; 0 counts as not given
GetPollsPage(P, V, t, status, limit, offset) ==
    LET rows == NewestFirst(DOMAIN GetPollsQuery(P, V, t, status))
        limited == IF limit # 0 THEN Range(rows, 0, limit - 1) ELSE rows
    IN  IF offset # 0
        THEN Range(rows, offset, offset + (IF limit # 0 THEN limit ELSE DefaultRange) - 1)
        ELSE limited

\* getPollsUnified(filters, userId): the page of getPolls as a result with a
\* success flag
getPollsUnified(P, V, t, filters, fault) ==
    IF fault THEN [success |-> FALSE, data |-> <<>>]
    ELSE [success |-> TRUE,
          data |-> GetPollsPage(P, V, t, filters.status, filters.limit, filters.offset)]

\* GET /api/polls: query holds the parameters status, limit and offset, each
\* absent (NULL) or <<value>>
GetPolls(P, V, t, query, fault) ==
    LET status == IF query.status = NULL THEN "active" ELSE query.status[1]
        limit == IF query.limit = NULL THEN DefaultLimit ELSE query.limit[1]
        offset == IF query.offset = NULL THEN 0 ELSE query.offset[1]
        result == getPollsUnified(P, V, t,
                                  [status |-> status, limit |-> limit, offset |-> offset],
                                  fault)
    IN  IF ~result.success THEN [status |-> 500, data |-> <<>>, pagination |-> NULL]
        ELSE [status |-> 200, data |-> result.data,
              pagination |->
                 [total |-> Len(result.data),
                  limit |-> IF limit # 0 THEN limit ELSE DefaultLimit,
                  offset |-> offset,
                  hasNext |-> Len(result.data) = (IF limit # 0 THEN limit ELSE DefaultLimit),
                  hasPrev |-> offset > 0]]

\* the queries of a listing: every status, limits and offsets around the
\* number of polls
ListQueries ==
    [status : {NULL} \cup {<<f>> : f \in StatusFilters},
     limit : {NULL} \cup {<<n>> : n \in 1..(MaxPolls + 1)},
     offset : {NULL} \cup {<<n>> : n \in 0..MaxPolls}]

\* the number of polls that match the query's status filter now
Matching(query) ==
    Cardinality(ListedNow(IF query.status = NULL THEN "active" ELSE query.status[1]))

\* C30 as claimed: in the answer of GET /api/polls, pagination.hasNext is
\* true exactly if at least one poll that matches the filters lies beyond
\* position offset + limit.
C30_Claim ==
    \A query \in ListQueries :
        LET r == GetPolls(polls, votes, now, query, FALSE)
        IN  r.pagination.hasNext <=>
                Matching(query) > r.pagination.offset + r.pagination.limit

====
